---- MODULE Spec2Model ----
(***************************************************************************)
(* Model of the investment portfolio analyzer:                             *)
(*   src/src/portfolio_analyzer.py  PortfolioAnalyzer                      *)
(*   src/src/data_fetcher.py        StockDataFetcher                       *)
(*                                                                         *)
(* Numbers.  Share counts and prices are integers (whole shares, whole     *)
(* dollars); every quotient the code forms (weights, percentages, share    *)
(* deltas, scores) is an exact rational <<num, den>> in lowest terms with  *)
(* den > 0.  The model therefore describes the code's arithmetic without   *)
(* IEEE-754 rounding.                                                      *)
(*                                                                         *)
(* Optional values.  Python's None is the empty sequence <<>>, a present   *)
(* value x is <<x>>.                                                       *)
(*                                                                         *)
(* Provider.  The yfinance answers are the variables quotes and infos; one *)
(* handler sees one snapshot of them.  A handler's return value (or the    *)
(* exception it raises) is kept in result until the holdings or the        *)
(* provider's answers change.                                              *)
(***************************************************************************)
EXTENDS Integers, Sequences, FiniteSets, TLC

VARIABLES holdings, portfolio_data, quotes, infos, result,
          data_loaded, loaded_for, first_report

vars == <<holdings, portfolio_data, quotes, infos, result,
          data_loaded, loaded_for, first_report>>

\* data_loaded is the dashboard's st.session_state.data_loaded.  loaded_for
\* and first_report are history variables: the tickers held when the
\* dashboard's load_portfolio_data last returned True, and the first report
\* generated together with what it was generated from.
session == <<data_loaded, loaded_for, first_report>>

-----------------------------------------------------------------------------
(* Bounds of the model *)

\* share counts of the third ticker are 10, 20, ..., 10 * MaxLots
MaxLots == 1

\* the scoring specification draws up to MaxCount holdings, sectors and positions
MaxCount == 8

\* ... and top position weights in steps of 1 / TopSteps
TopSteps == 20

\* tickers in the order their holdings are added, the dashboard's sample
\* portfolio included
TickerOrder == <<"AAPL", "MSFT", "GOOGL", "AMZN", "TSLA">>

\* the tickers of the analyzer's own example
Tickers == {"AAPL", "MSFT", "GOOGL"}

\* the tickers of the dashboard's sample portfolio
SampleTickers == {TickerOrder[k] : k \in 1..Len(TickerOrder)}

None == <<>>

Some(x) == <<x>>

\* the arguments add_holding is called with: <<ticker, shares, purchase_price>>
Orders ==
    {<<"AAPL", 10, Some(150)>>, <<"MSFT", 15, Some(300)>>, <<"MSFT", 10, None>>}
        \cup {<<"GOOGL", 10 * k, None>> : k \in 1..MaxLots}

\* the closes of the provider's one-day history of a ticker: an empty frame (also
\* the outcome of a failed request) or one row
PriceChoices ==
    [t \in Tickers |-> IF t = "MSFT" THEN {160, 290} ELSE {160}]

QuoteAnswers(t) == {<<>>} \cup {<<p>> : p \in PriceChoices[t]}

\* the provider's stock.info for a ticker: the lookup raises, or the info has
\* no 'sector' key, or it names a sector
InfoError == "#error"

InfoNoSector == "#nosector"

SectorChoices ==
    [t \in Tickers |->
        CASE t = "AAPL" -> {"Technology"}
          [] t = "MSFT" -> {"Technology", "Financial Services"}
          [] OTHER -> {"Communication Services"}]

InfoAnswers(t) == {InfoError, InfoNoSector} \cup SectorChoices[t]

\* the price history the provider returns for a ticker (closing prices)
Histories == {<<100, 110, 99>>}

\* target_weights arguments of get_rebalancing_recommendations
TargetChoices ==
    {None, Some([t \in {"AAPL", "MSFT"} |-> <<1, 2>>])}

-----------------------------------------------------------------------------
(* Exact rational arithmetic *)

Abs(n) == IF n < 0 THEN -n ELSE n

RECURSIVE GCD(_, _)
GCD(a, b) == IF b = 0 THEN a ELSE GCD(b, a % b)

Rat(n, d) ==
    LET g == GCD(Abs(n), Abs(d))
        s == IF d < 0 THEN -1 ELSE 1
    IN  <<(s * n) \div g, (s * d) \div g>>

RatInt(n) == <<n, 1>>

\* sums go through the least common denominator, which keeps the
\* intermediate products small
RatAdd(a, b) ==
    LET g == GCD(a[2], b[2])
    IN  Rat(a[1] * (b[2] \div g) + b[1] * (a[2] \div g), (a[2] \div g) * b[2])

RatNeg(a) == <<-a[1], a[2]>>

RatSub(a, b) == RatAdd(a, RatNeg(b))

\* the common factors are taken out before the products are formed
RatMul(a, b) ==
    LET g == GCD(Abs(a[1]), b[2])
        h == GCD(Abs(b[1]), a[2])
    IN  Rat((a[1] \div g) * (b[1] \div h), (a[2] \div h) * (b[2] \div g))

RatDiv(a, b) == RatMul(a, IF b[1] < 0 THEN <<-b[2], -b[1]>> ELSE <<b[2], b[1]>>)

RatLess(a, b) == a[1] * b[2] < b[1] * a[2]

RatLeq(a, b) == a[1] * b[2] <= b[1] * a[2]

RatMin(a, b) == IF RatLess(b, a) THEN b ELSE a

RatMax(a, b) == IF RatLess(a, b) THEN b ELSE a

RECURSIVE RatSumSeq(_)
RatSumSeq(s) == IF s = <<>> THEN RatInt(0) ELSE RatAdd(Head(s), RatSumSeq(Tail(s)))

-----------------------------------------------------------------------------
(* Python helpers *)

\* the keys of a dict in the order the loop visits them
KeysInOrder(d) == SelectSeq(TickerOrder, LAMBDA t : t \in DOMAIN d)

\* truth value of an optional number: None and 0 are falsy
Truthy(opt) == opt # None /\ opt[1] # 0

EmptyDict == [t \in {} |-> 0]

DictPut(d, k, v) == [x \in DOMAIN d \cup {k} |-> IF x = k THEN v ELSE d[x]]

Ok(v) == [status |-> "ok", value |-> v]

Raised(e) == [status |-> e, value |-> None]

-----------------------------------------------------------------------------
(* StockDataFetcher *)

\* get_current_price: the last close of the one-day history, None when the
\* frame is empty or the request raised
GetCurrentPrice(q, ticker) ==
    IF q[ticker] = <<>> THEN None ELSE Some(q[ticker][Len(q[ticker])])

\* get_stock_info: None when the request raised, else a record whose sector
\* defaults to 'N/A'
GetStockInfo(i, ticker) ==
    IF i[ticker] = InfoError
    THEN None
    ELSE Some([sector |-> IF i[ticker] = InfoNoSector THEN "N/A" ELSE i[ticker]])

\* fetch_portfolio_data: the tickers whose history came back non-empty
FetchPortfolioData(tickers, fetched) ==
    [t \in {x \in tickers : fetched[x] # None} |-> fetched[t][1]]

-----------------------------------------------------------------------------
(* PortfolioAnalyzer.calculate_portfolio_value *)

\* mutant: the gain is taken with the two prices swapped
NewPositionSwappedGain(holding, current_price) ==
    LET has_purchase == Truthy(holding.purchase_price)
        purchase == holding.purchase_price[1]
    IN  [shares |-> holding.shares,
         current_price |-> current_price,
         position_value |-> current_price * holding.shares,
         purchase_price |-> holding.purchase_price,
         gain_loss |->
            IF has_purchase
            THEN Some((purchase - current_price) * holding.shares)
            ELSE None,
         gain_loss_pct |->
            IF has_purchase
            THEN Some(RatMul(RatSub(Rat(current_price, purchase), RatInt(1)),
                             RatInt(100)))
            ELSE None]

\* one position of the first loop (lines 75-92), without its weight
NewPosition(holding, current_price) ==
    LET has_purchase == Truthy(holding.purchase_price)
        purchase == holding.purchase_price[1]
    IN  [shares |-> holding.shares,
         current_price |-> current_price,
         position_value |-> current_price * holding.shares,
         purchase_price |-> holding.purchase_price,
         gain_loss |->
            IF has_purchase
            THEN Some((current_price - purchase) * holding.shares)
            ELSE None,
         gain_loss_pct |->
            IF has_purchase
            THEN Some(RatMul(RatSub(Rat(current_price, purchase), RatInt(1)),
                             RatInt(100)))
            ELSE None]

\* the first loop (lines 71-92): acc is [total_value, positions]
RECURSIVE ValueLoop(_, _, _, _)
ValueLoop(h, q, ts, acc) ==
    IF ts = <<>>
    THEN acc
    ELSE LET ticker == Head(ts)
             current_price == GetCurrentPrice(q, ticker)
         IN  IF Truthy(current_price)
             THEN LET pos == NewPosition(h[ticker], current_price[1])
                  IN  ValueLoop(h, q, Tail(ts),
                          [total_value |-> acc.total_value + pos.position_value,
                           positions |-> DictPut(acc.positions, ticker, pos)])
             ELSE ValueLoop(h, q, Tail(ts), acc)

\* mutant: the weight as a percentage
PositionWeightPercent(position_value, total_value) ==
    Rat(100 * position_value, total_value)

\* the weight of one position (line 96)
PositionWeight(position_value, total_value) == Rat(position_value, total_value)

WithWeight(pos, w) ==
    [shares |-> pos.shares,
     current_price |-> pos.current_price,
     position_value |-> pos.position_value,
     purchase_price |-> pos.purchase_price,
     gain_loss |-> pos.gain_loss,
     gain_loss_pct |-> pos.gain_loss_pct,
     weight |-> w]

CalculatePortfolioValue(h, q) ==
    LET acc == ValueLoop(h, q, KeysInOrder(h),
                         [total_value |-> 0, positions |-> EmptyDict])
    IN  Ok([total_value |-> acc.total_value,
            positions |->
                [t \in DOMAIN acc.positions |->
                    WithWeight(acc.positions[t],
                        PositionWeight(acc.positions[t].position_value,
                                       acc.total_value))]])

-----------------------------------------------------------------------------
(* PortfolioAnalyzer.analyze_diversification *)

\* the sector loop (lines 113-123): acc is [raised, sectors]; indexing
\* positions with a ticker that has no position raises KeyError
RECURSIVE SectorLoop(_, _, _, _)
SectorLoop(i, positions, ts, acc) ==
    IF ts = <<>> \/ acc.raised
    THEN acc
    ELSE LET ticker == Head(ts)
             info == GetStockInfo(i, ticker)
         IN  IF info # None /\ "sector" \in DOMAIN info[1]
             THEN IF ticker \notin DOMAIN positions
                  THEN [raised |-> TRUE, sectors |-> acc.sectors]
                  ELSE LET sector == info[1].sector
                           position_value == positions[ticker].position_value
                       IN  SectorLoop(i, positions, Tail(ts),
                               [raised |-> FALSE,
                                sectors |->
                                    IF sector \in DOMAIN acc.sectors
                                    THEN DictPut(acc.sectors, sector,
                                             acc.sectors[sector] + position_value)
                                    ELSE DictPut(acc.sectors, sector,
                                             position_value)])
             ELSE SectorLoop(i, positions, Tail(ts), acc)

\* sorted(..., reverse=True) of a list of weights
RECURSIVE InsertDesc(_, _)
InsertDesc(w, s) ==
    IF s = <<>> THEN <<w>>
    ELSE IF RatLeq(Head(s), w) THEN <<w>> \o s
    ELSE <<Head(s)>> \o InsertDesc(w, Tail(s))

RECURSIVE SortedDesc(_)
SortedDesc(s) == IF s = <<>> THEN <<>> ELSE InsertDesc(Head(s), SortedDesc(Tail(s)))

\* the weights of the positions, in dict order
WeightList(positions) ==
    LET ks == KeysInOrder(positions)
    IN  [k \in 1..Len(ks) |-> positions[ks[k]].weight]

\* sorted_weights[0] if sorted_weights else 0 (line 136)
TopPosition(sorted_weights) ==
    IF sorted_weights # <<>> THEN sorted_weights[1] ELSE RatInt(0)

\* sum(sorted_weights[:3]) if len >= 3 else sum(sorted_weights) (line 137)
Top3(sorted_weights) ==
    IF Len(sorted_weights) >= 3
    THEN RatSumSeq(SubSeq(sorted_weights, 1, 3))
    ELSE RatSumSeq(sorted_weights)

\* round(x, 1): to one decimal, ties to even
Round1(x) ==
    LET n == 10 * x[1]
        f == n \div x[2]
        r == n % x[2]
    IN  IF 2 * r > x[2] THEN Rat(f + 1, 10)
        ELSE IF 2 * r < x[2] THEN Rat(f, 10)
        ELSE IF f % 2 = 0 THEN Rat(f, 10) ELSE Rat(f + 1, 10)

\* the base score (line 139)
BaseScore(num_holdings, num_sectors) ==
    RatMin(RatInt(10),
           RatAdd(RatMul(RatInt(num_holdings), <<1, 2>>),
                  RatMul(RatInt(num_sectors), <<3, 2>>)))

\* mutant: no penalty for the top three positions
DiversificationScoreNoTop3(num_holdings, num_sectors, top_position, top_3) ==
    LET base == BaseScore(num_holdings, num_sectors)
        after_top == IF RatLess(<<2, 5>>, top_position)
                     THEN RatSub(base, RatInt(2)) ELSE base
    IN  RatMax(RatInt(0), after_top)

\* mutant: the base score is not capped at 10
DiversificationScoreUncapped(num_holdings, num_sectors, top_position, top_3) ==
    LET base == RatAdd(RatMul(RatInt(num_holdings), <<1, 2>>),
                       RatMul(RatInt(num_sectors), <<3, 2>>))
        after_top == IF RatLess(<<2, 5>>, top_position)
                     THEN RatSub(base, RatInt(2)) ELSE base
        after_top3 == IF RatLess(<<7, 10>>, top_3)
                      THEN RatSub(after_top, RatInt(1)) ELSE after_top
    IN  RatMax(RatInt(0), after_top3)

\* mutant: a top position of exactly 0.40 is penalised too
DiversificationScoreAtThreshold(num_holdings, num_sectors, top_position, top_3) ==
    LET base == BaseScore(num_holdings, num_sectors)
        after_top == IF RatLeq(<<2, 5>>, top_position)
                     THEN RatSub(base, RatInt(2)) ELSE base
        after_top3 == IF RatLess(<<7, 10>>, top_3)
                      THEN RatSub(after_top, RatInt(1)) ELSE after_top
    IN  RatMax(RatInt(0), after_top3)

\* the score before rounding (lines 139-146)
DiversificationScore(num_holdings, num_sectors, top_position, top_3) ==
    LET base == BaseScore(num_holdings, num_sectors)
        after_top == IF RatLess(<<2, 5>>, top_position)
                     THEN RatSub(base, RatInt(2)) ELSE base
        after_top3 == IF RatLess(<<7, 10>>, top_3)
                      THEN RatSub(after_top, RatInt(1)) ELSE after_top
    IN  RatMax(RatInt(0), after_top3)

\* lines 129-155: the counts, the concentration figures and the rounded score
\* of the returned dict
ConcentrationReport(num_holdings, num_sectors, weights) ==
    LET sorted_weights == SortedDesc(weights)
        top_position == TopPosition(sorted_weights)
        top_3 == Top3(sorted_weights)
    IN  [num_holdings |-> num_holdings,
         num_sectors |-> num_sectors,
         top_position_weight |-> top_position,
         top_3_weight |-> top_3,
         diversification_score |->
            Round1(DiversificationScore(num_holdings, num_sectors,
                                        top_position, top_3))]

AnalyzeDiversification(h, q, i) ==
    LET portfolio_value == CalculatePortfolioValue(h, q).value
        loop == SectorLoop(i, portfolio_value.positions, KeysInOrder(h),
                           [raised |-> FALSE, sectors |-> EmptyDict])
        sectors == loop.sectors
        total_value == portfolio_value.total_value
        report == ConcentrationReport(Cardinality(DOMAIN h),
                                      Cardinality(DOMAIN sectors),
                                      WeightList(portfolio_value.positions))
    IN  IF loop.raised
        THEN Raised("KeyError")
        ELSE Ok([num_holdings |-> report.num_holdings,
                 num_sectors |-> report.num_sectors,
                 sector_allocation |->
                    [s \in DOMAIN sectors |-> Rat(sectors[s], total_value)],
                 top_position_weight |-> report.top_position_weight,
                 top_3_weight |-> report.top_3_weight,
                 diversification_score |-> report.diversification_score])

-----------------------------------------------------------------------------
(* RiskCalculator *)

\* A pandas Series is a function from its index (trading days, numbered) to
\* floats.  A float is an exact rational <<n, d>>, an infinity <<1, 0>> or
\* <<-1, 0>>, or NaN.  The standard deviation is a square root: the
\* volatility is kept as its square, which is rational and 0 exactly when
\* the volatility is 0.
NaN == <<>>

Inf(sign) == <<sign, 0>>

MinOf(S) == CHOOSE x \in S : \A y \in S : x <= y

MaxOf(S) == CHOOSE x \in S : \A y \in S : y <= x

\* the index of a Series in order
RECURSIVE Dates(_)
Dates(S) == IF S = {} THEN <<>> ELSE <<MinOf(S)>> \o Dates(S \ {MinOf(S)})

\* the values of a Series that are not NaN, in index order
Valid(s) == LET ds == SelectSeq(Dates(DOMAIN s), LAMBDA d : s[d] # NaN)
            IN  [k \in 1..Len(ds) |-> s[ds[k]]]

\* data['Close'] of a history whose closes are whole numbers
Close(data) == [d \in DOMAIN data |-> RatInt(data[d])]

\* Series.pct_change(): NaN is filled forward, the first row has no change
PctChange(s) ==
    LET last(d) == {x \in DOMAIN s : x <= d /\ s[x] # NaN}
        filled == [d \in DOMAIN s |->
                      IF last(d) = {} THEN NaN ELSE s[MaxOf(last(d))]]
        before(d) == {x \in DOMAIN s : x < d}
    IN  [d \in DOMAIN s |->
            IF before(d) = {} \/ filled[d] = NaN
            THEN NaN
            ELSE LET prev == filled[MaxOf(before(d))]
                 IN  IF prev = NaN THEN NaN
                     ELSE RatSub(RatDiv(filled[d], prev), RatInt(1))]

\* Series.dropna()
DropNa(s) == [d \in {x \in DOMAIN s : s[x] # NaN} |-> s[d]]

\* calculate_returns: prices.pct_change().dropna(), whatever the length
CalculateReturns(prices) == DropNa(PctChange(prices))

\* Series.mean(): NaN is skipped; NaN when nothing is left
Mean(s) ==
    LET v == Valid(s)
    IN  IF v = <<>> THEN NaN ELSE RatDiv(RatSumSeq(v), RatInt(Len(v)))

\* the square of Series.std(): the sample variance (ddof = 1) of the values
\* that are not NaN; NaN when fewer than 2 are left
Variance(s) ==
    LET v == Valid(s)
        m == Mean(s)
        sq == [k \in 1..Len(v) |-> RatMul(RatSub(v[k], m), RatSub(v[k], m))]
    IN  IF Len(v) < 2 THEN NaN
        ELSE RatDiv(RatSumSeq(sq), RatInt(Len(v) - 1))

TradingDays == 252

\* risk_free_rate = 0.04
RiskFreeRate == <<1, 25>>

\* calculate_volatility, annualised: std * sqrt(252), kept as its square
CalculateVolatility(returns) ==
    LET variance == Variance(returns)
    IN  IF variance = NaN THEN NaN ELSE RatMul(variance, RatInt(TradingDays))

\* calculate_sharpe_ratio, annualised:
\* (mean * 252 - risk_free_rate) / (std * sqrt(252)), kept as the pair of its
\* numerator and the square of its denominator.  The division is a float
\* division: by a zero deviation it gives an infinity, or NaN for 0 / 0
CalculateSharpeRatio(returns) ==
    LET mean_return == Mean(returns)
        variance == Variance(returns)
    IN  IF mean_return = NaN \/ variance = NaN THEN NaN
        ELSE LET excess == RatSub(RatMul(mean_return, RatInt(TradingDays)),
                                  RiskFreeRate)
             IN  IF variance # RatInt(0)
                 THEN <<excess, RatMul(variance, RatInt(TradingDays))>>
                 ELSE IF excess[1] = 0 THEN NaN
                 ELSE <<Inf(IF excess[1] < 0 THEN -1 ELSE 1), RatInt(1)>>

\* a < b on floats: false when either is NaN
FloatLess(a, b) == a # NaN /\ b # NaN /\ RatLess(a, b)

RatAbs(a) == <<Abs(a[1]), a[2]>>

RECURSIVE InsertAsc(_, _)
InsertAsc(x, s) ==
    IF s = <<>> THEN <<x>>
    ELSE IF RatLeq(x, Head(s)) THEN <<x>> \o s
    ELSE <<Head(s)>> \o InsertAsc(x, Tail(s))

RECURSIVE SortedAsc(_)
SortedAsc(s) == IF s = <<>> THEN <<>> ELSE InsertAsc(Head(s), SortedAsc(Tail(s)))

\* np.percentile(returns, (1 - confidence_level) * 100) with the default
\* linear interpolation; a NaN in the data gives NaN
Percentile(returns, confidence_level) ==
    LET v == SortedAsc(Valid(returns))
        pos == RatMul(RatInt(Len(v) - 1), RatSub(RatInt(1), confidence_level))
        i == pos[1] \div pos[2]
        frac == RatSub(pos, RatInt(i))
    IN  IF \E d \in DOMAIN returns : returns[d] = NaN THEN NaN
        ELSE IF frac = RatInt(0) THEN v[i + 1]
        ELSE RatAdd(v[i + 1], RatMul(frac, RatSub(v[i + 2], v[i + 1])))

\* calculate_var; the percentile of an empty array is an IndexError in numpy
CalculateVar(returns, confidence_level) ==
    IF DOMAIN returns = {} THEN Raised("IndexError")
    ELSE LET var == Percentile(returns, confidence_level)
         IN  Ok(IF var = NaN THEN NaN ELSE RatAbs(var))

\* 1 + series
OnePlus(s) ==
    [d \in DOMAIN s |-> IF s[d] = NaN THEN NaN ELSE RatAdd(RatInt(1), s[d])]

RECURSIVE RatProdSeq(_)
RatProdSeq(s) ==
    IF s = <<>> THEN RatInt(1) ELSE RatMul(Head(s), RatProdSeq(Tail(s)))

RECURSIVE RatMaxSeq(_)
RatMaxSeq(s) ==
    IF Len(s) = 1 THEN Head(s) ELSE RatMax(Head(s), RatMaxSeq(Tail(s)))

RECURSIVE RatMinSeq(_)
RatMinSeq(s) ==
    IF Len(s) = 1 THEN Head(s) ELSE RatMin(Head(s), RatMinSeq(Tail(s)))

\* the rows of a Series up to and including d
UpTo(s, d) == [x \in {y \in DOMAIN s : y <= d} |-> s[x]]

\* Series.cumprod(): NaN rows stay NaN and are skipped by the product
CumProd(s) ==
    [d \in DOMAIN s |-> IF s[d] = NaN THEN NaN ELSE RatProdSeq(Valid(UpTo(s, d)))]

\* Series.expanding().max()
ExpandingMax(s) ==
    [d \in DOMAIN s |->
        IF Valid(UpTo(s, d)) = <<>> THEN NaN ELSE RatMaxSeq(Valid(UpTo(s, d)))]

\* (cumulative - running_max) / running_max of calculate_max_drawdown
Drawdown(cumulative, running_max) ==
    [d \in DOMAIN cumulative |->
        IF cumulative[d] = NaN \/ running_max[d] = NaN THEN NaN
        ELSE RatDiv(RatSub(cumulative[d], running_max[d]), running_max[d])]

\* mutant: the lowest drawdown is returned with its sign
CalculateMaxDrawdownSigned(prices) ==
    LET cumulative == CumProd(OnePlus(CalculateReturns(prices)))
        drawdown == Valid(Drawdown(cumulative, ExpandingMax(cumulative)))
    IN  IF drawdown = <<>> THEN NaN ELSE RatMinSeq(drawdown)

\* calculate_max_drawdown: the cumulative series is rebuilt from the returns
\* of prices, so it has no row for the first observation
CalculateMaxDrawdown(prices) ==
    LET cumulative == CumProd(OnePlus(CalculateReturns(prices)))
        running_max == ExpandingMax(cumulative)
        drawdown == Valid(Drawdown(cumulative, running_max))
    IN  IF drawdown = <<>> THEN NaN ELSE RatAbs(RatMinSeq(drawdown))

-----------------------------------------------------------------------------
(* RiskCalculator.calculate_portfolio_metrics, PortfolioAnalyzer.calculate_risk_metrics *)

\* sum of returns_df[ticker][d] * weights[ticker] over the sequence ts
RECURSIVE WeightedSum(_, _, _, _)
WeightedSum(returns_data, weights, ts, d) ==
    IF ts = <<>> THEN RatInt(0)
    ELSE RatAdd(RatMul(returns_data[Head(ts)][d], weights[Head(ts)]),
                WeightedSum(returns_data, weights, Tail(ts), d))

\* mutant: the frame keeps only the dates that every ticker has
WeightedReturnsInner(returns_data, weights, ts) ==
    LET index == {d \in UNION {DOMAIN returns_data[t] : t \in DOMAIN returns_data} :
                    \A t \in DOMAIN returns_data : d \in DOMAIN returns_data[t]}
    IN  [d \in index |-> WeightedSum(returns_data, weights, ts, d)]

\* pd.DataFrame(returns_data) has a row for every date of any ticker, NaN
\* where a ticker has none (lines 168); the weighted sum of its columns is NaN
\* on those rows (lines 171-172)
WeightedReturns(returns_data, weights, ts) ==
    LET index == UNION {DOMAIN returns_data[t] : t \in DOMAIN returns_data}
    IN  [d \in index |->
            IF \E t \in DOMAIN returns_data : d \notin DOMAIN returns_data[t]
            THEN NaN
            ELSE WeightedSum(returns_data, weights, ts, d)]

\* weights when the argument is None (lines 158-159)
EqualWeights(pd) == [t \in DOMAIN pd |-> Rat(1, Cardinality(DOMAIN pd))]

\* the metrics dict of calculate_portfolio_metrics (lines 175-183), with the
\* local variable weighted_returns it is computed from
Metrics(weighted_returns, mean, var_95) ==
    IF var_95.status # "ok" THEN var_95
    ELSE Ok([weighted_returns |-> weighted_returns,
             annual_return |->
                IF mean = NaN THEN NaN ELSE RatMul(mean, RatInt(TradingDays)),
             volatility |-> CalculateVolatility(weighted_returns),
             sharpe_ratio |-> CalculateSharpeRatio(weighted_returns),
             var_95 |-> var_95.value,
             max_drawdown |->
                CalculateMaxDrawdown(CumProd(OnePlus(weighted_returns)))])

\* the metrics of a weighted return series
MetricsOf(weighted_returns) ==
    Metrics(weighted_returns, Mean(weighted_returns),
            CalculateVar(weighted_returns, <<95, 100>>))

\* lines 161-172 for the weights in use; weights[ticker] raises KeyError for
\* a ticker without a weight
WeightedMetrics(pd, weights) ==
    IF \E t \in DOMAIN pd : t \notin DOMAIN weights
    THEN Raised("KeyError")
    ELSE MetricsOf(WeightedReturns(
                [t \in DOMAIN pd |-> CalculateReturns(Close(pd[t]))],
                weights, KeysInOrder(pd)))

\* calculate_portfolio_metrics(portfolio_data, weights)
CalculatePortfolioMetrics(pd, weights_arg) ==
    WeightedMetrics(pd, IF weights_arg = None THEN EqualWeights(pd)
                        ELSE weights_arg[1])

\* sharpe_ratio > bound, for a Sharpe ratio kept as numerator and squared
\* denominator and a bound that is not negative
SharpeAbove(sharpe_ratio, bound) ==
    /\ sharpe_ratio # NaN
    /\ sharpe_ratio[1][1] > 0
    /\ \/ sharpe_ratio[1][2] = 0
       \/ RatLess(RatMul(RatMul(bound, bound), sharpe_ratio[2]),
                  RatMul(sharpe_ratio[1], sharpe_ratio[1]))

\* assess_risk_level; the volatility is kept as its square, so its bounds
\* 0.20 and 0.30 are squared
AssessRiskLevel(sharpe_ratio, volatility) ==
    IF SharpeAbove(sharpe_ratio, RatInt(1)) /\ FloatLess(volatility, <<1, 25>>)
    THEN "Low Risk"
    ELSE IF SharpeAbove(sharpe_ratio, <<1, 2>>)
            /\ FloatLess(volatility, <<9, 100>>)
    THEN "Medium Risk"
    ELSE "High Risk"

\* the metrics with metrics['risk_level'] added (lines 179-183)
WithRiskLevel(metrics) ==
    [weighted_returns |-> metrics.weighted_returns,
     annual_return |-> metrics.annual_return,
     volatility |-> metrics.volatility,
     sharpe_ratio |-> metrics.sharpe_ratio,
     var_95 |-> metrics.var_95,
     max_drawdown |-> metrics.max_drawdown,
     risk_level |-> AssessRiskLevel(metrics.sharpe_ratio, metrics.volatility)]

\* weights of calculate_risk_metrics (lines 169-170)
PositionWeights(positions) == [t \in DOMAIN positions |-> positions[t].weight]

\* the metrics returned, or the exception passed on
RiskMetricsResult(metrics) ==
    IF metrics.status = "ok" THEN Ok(Some(WithRiskLevel(metrics.value)))
    ELSE metrics

\* mutant: the guard on an empty portfolio_data is missing
CalculateRiskMetricsNoGuard(h, pd, q) ==
    IF DOMAIN pd = {} THEN Raised("TypeError")
    ELSE RiskMetricsResult(CalculatePortfolioMetrics(pd,
            Some(PositionWeights(CalculatePortfolioValue(h, q).value.positions))))

CalculateRiskMetrics(h, pd, q) ==
    IF DOMAIN pd = {}
    THEN Ok(None)
    ELSE RiskMetricsResult(CalculatePortfolioMetrics(pd,
            Some(PositionWeights(CalculatePortfolioValue(h, q).value.positions))))

-----------------------------------------------------------------------------
(* PortfolioAnalyzer.get_rebalancing_recommendations *)

\* dict.get(key, 0) on a dict of weights
GetOr0(d, k) == IF k \in DOMAIN d THEN d[k] ELSE RatInt(0)

\* mutant: a delta of zero shares counts as a purchase
ActionBuyAtZero(shares_to_trade) ==
    IF RatLeq(RatInt(0), shares_to_trade) THEN "BUY" ELSE "SELL"

\* 'BUY' if shares_to_trade > 0 else 'SELL' if shares_to_trade < 0 else 'HOLD'
Action(shares_to_trade) ==
    IF RatLess(RatInt(0), shares_to_trade) THEN "BUY"
    ELSE IF RatLess(shares_to_trade, RatInt(0)) THEN "SELL"
    ELSE "HOLD"

\* mutant: the equal weight counts one holding too many
DefaultTargetsOneMore(h) ==
    [t \in DOMAIN h |-> Rat(1, Cardinality(DOMAIN h) + 1)]

\* target_weights when the argument is None (lines 202-204)
DefaultTargets(h) == [t \in DOMAIN h |-> Rat(1, Cardinality(DOMAIN h))]

\* one entry of recommendations (lines 210-226)
Recommendation(position, current_weight, target_weight, total_value) ==
    LET difference == RatSub(target_weight, current_weight)
        dollar_difference == RatMul(difference, RatInt(total_value))
        shares_to_trade == RatDiv(dollar_difference, RatInt(position.current_price))
    IN  [current_weight |-> current_weight,
         target_weight |-> target_weight,
         difference_pct |-> difference,
         dollar_difference |-> dollar_difference,
         shares_to_trade |-> shares_to_trade,
         action |-> Action(shares_to_trade)]

GetRebalancingRecommendations(h, q, target_weights) ==
    LET portfolio_value == CalculatePortfolioValue(h, q).value
        positions == portfolio_value.positions
        current_weights == [t \in DOMAIN positions |-> positions[t].weight]
        targets == IF target_weights = None THEN DefaultTargets(h)
                   ELSE target_weights[1]
    IN  IF \E t \in DOMAIN h : t \notin DOMAIN positions
        THEN Raised("KeyError")
        ELSE Ok([t \in DOMAIN h |->
                    Recommendation(positions[t], GetOr0(current_weights, t),
                                   GetOr0(targets, t), portfolio_value.total_value)])

-----------------------------------------------------------------------------
(* PortfolioAnalyzer.generate_portfolio_report *)

\* the dict literal evaluates its three values in order; the first exception
\* ends the call
Report(valuation, diversification, risk_metrics) ==
    IF valuation.status # "ok" THEN valuation
    ELSE IF diversification.status # "ok" THEN diversification
    ELSE IF risk_metrics.status # "ok" THEN risk_metrics
    ELSE Ok([valuation |-> valuation.value,
             diversification |-> diversification.value,
             risk_metrics |-> risk_metrics.value])

GeneratePortfolioReport(h, pd, q, i) ==
    Report(CalculatePortfolioValue(h, q), AnalyzeDiversification(h, q, i),
           CalculateRiskMetrics(h, pd, q))

-----------------------------------------------------------------------------
(* The state machine *)

\* result: the last call, its argument (None when it takes none that matters),
\* "ok" or the exception raised, and the value returned
NoCall == [op |-> "none", arg |-> None, status |-> "ok", value |-> None]

Returned(op, arg, r) ==
    [op |-> op, arg |-> arg, status |-> r.status, value |-> r.value]

Init ==
    /\ holdings = EmptyDict
    /\ data_loaded = FALSE
    /\ loaded_for = {}
    /\ first_report = None
    /\ portfolio_data = EmptyDict
    /\ quotes = [t \in Tickers |-> <<>>]
    /\ infos = [t \in Tickers |-> InfoError]
    /\ result = NoCall

\* mutant: adding a ticker already held accumulates its shares
AddHoldingAccumulate(ticker, shares, purchase_price) ==
    /\ holdings' = DictPut(holdings, ticker,
                        [shares |-> IF ticker \in DOMAIN holdings
                                    THEN holdings[ticker].shares + shares
                                    ELSE shares,
                         purchase_price |-> purchase_price])
    /\ result' = Returned("add_holding", Some(<<ticker, shares, purchase_price>>),
                          Ok(None))
    /\ UNCHANGED <<portfolio_data, quotes, infos, session>>

\* add_holding(ticker, shares, purchase_price)
AddHolding(ticker, shares, purchase_price) ==
    /\ holdings' = DictPut(holdings, ticker,
                        [shares |-> shares, purchase_price |-> purchase_price])
    /\ result' = Returned("add_holding", Some(<<ticker, shares, purchase_price>>),
                          Ok(None))
    /\ UNCHANGED <<portfolio_data, quotes, infos, session>>

\* load_portfolio_data(period); fetched is the provider's history per ticker
LoadPortfolioData(fetched) ==
    IF DOMAIN holdings = {}
    THEN /\ result' = Returned("load_portfolio_data", None, Ok(FALSE))
         /\ UNCHANGED <<holdings, portfolio_data, quotes, infos, session>>
    ELSE LET data == FetchPortfolioData(DOMAIN holdings, fetched)
         IN  /\ portfolio_data' = data
             /\ result' = Returned("load_portfolio_data", None, Ok(DOMAIN data # {}))
             /\ UNCHANGED <<holdings, quotes, infos, session>>

CallCalculatePortfolioValue ==
    /\ result' = Returned("calculate_portfolio_value", None,
                          CalculatePortfolioValue(holdings, quotes))
    /\ UNCHANGED <<holdings, portfolio_data, quotes, infos, session>>

CallAnalyzeDiversification ==
    /\ result' = Returned("analyze_diversification", None,
                          AnalyzeDiversification(holdings, quotes, infos))
    /\ UNCHANGED <<holdings, portfolio_data, quotes, infos, session>>

\* mutant: the risk metrics use up the loaded price history
CallCalculateRiskMetricsConsuming ==
    /\ result' = Returned("calculate_risk_metrics", None,
                          CalculateRiskMetrics(holdings, portfolio_data, quotes))
    /\ portfolio_data' = EmptyDict
    /\ UNCHANGED <<holdings, quotes, infos, session>>

CallCalculateRiskMetrics ==
    /\ result' = Returned("calculate_risk_metrics", None,
                          CalculateRiskMetrics(holdings, portfolio_data, quotes))
    /\ UNCHANGED <<holdings, portfolio_data, quotes, infos, session>>

CallGetRebalancingRecommendations(target_weights) ==
    /\ result' = Returned("get_rebalancing_recommendations", target_weights,
                          GetRebalancingRecommendations(holdings, quotes,
                                                        target_weights))
    /\ UNCHANGED <<holdings, portfolio_data, quotes, infos, session>>

CallGeneratePortfolioReport ==
    /\ result' = Returned("generate_portfolio_report", None,
                          GeneratePortfolioReport(holdings, portfolio_data,
                                                  quotes, infos))
    /\ UNCHANGED <<holdings, portfolio_data, quotes, infos, session>>

\* the provider's latest close of a held ticker changes
QuoteChange(ticker, answer) ==
    /\ ticker \in DOMAIN holdings
    /\ answer # quotes[ticker]
    /\ quotes' = [quotes EXCEPT ![ticker] = answer]
    /\ result' = NoCall
    /\ UNCHANGED <<holdings, portfolio_data, infos, session>>

\* the provider's reference data of a held ticker changes
InfoChange(ticker, answer) ==
    /\ ticker \in DOMAIN holdings
    /\ answer # infos[ticker]
    /\ infos' = [infos EXCEPT ![ticker] = answer]
    /\ result' = NoCall
    /\ UNCHANGED <<holdings, portfolio_data, quotes, session>>

Next ==
    \/ \E o \in Orders : AddHolding(o[1], o[2], o[3])
    \/ \E fetched \in [DOMAIN holdings -> {None} \cup {Some(x) : x \in Histories}] :
            LoadPortfolioData(fetched)
    \/ CallCalculatePortfolioValue
    \/ CallAnalyzeDiversification
    \/ CallCalculateRiskMetrics
    \/ \E tw \in TargetChoices : CallGetRebalancingRecommendations(tw)
    \/ CallGeneratePortfolioReport
    \/ \E t \in Tickers : \E a \in QuoteAnswers(t) : QuoteChange(t, a)
    \/ \E t \in Tickers : \E a \in InfoAnswers(t) : InfoChange(t, a)

Spec == Init /\ [][Next]_vars

-----------------------------------------------------------------------------
(* The scoring of analyze_diversification on portfolios of up to MaxCount     *)
(* holdings: lines 129-155 applied to the counts and the list of weights the  *)
(* first half of the method hands them.                                       *)

\* n weights summing to 1: one of k / TopSteps, the others equal and no larger
ShapeWeights(n, k) ==
    [j \in 1..n |->
        IF j = 1 THEN Rat(k, TopSteps) ELSE Rat(TopSteps - k, TopSteps * (n - 1))]

Shapes ==
    {<<>>, <<RatInt(1)>>}
        \cup UNION {{ShapeWeights(n, k) :
                        k \in {x \in 1..(TopSteps - 1) :
                                 x * (n - 1) >= TopSteps - x}} :
                    n \in 2..MaxCount}

\* a portfolio has a position for some of its holdings and a sector for some
\* of its positions
Realizable(num_holdings, num_sectors, weights) ==
    /\ Len(weights) <= num_holdings
    /\ num_sectors <= Len(weights)

\* the inputs of one scoring: the counts and the list of weights
ScoreInputs ==
    {<<nh, ns, w>> \in (0..MaxCount) \X (0..MaxCount) \X Shapes :
        Realizable(nh, ns, w)}

InitScore ==
    /\ holdings = EmptyDict
    /\ data_loaded = FALSE
    /\ loaded_for = {}
    /\ first_report = None
    /\ portfolio_data = EmptyDict
    /\ quotes = [t \in Tickers |-> <<>>]
    /\ infos = [t \in Tickers |-> InfoError]
    /\ \E in \in ScoreInputs :
            result = [op |-> "pending", arg |-> Some(in), status |-> "ok",
                      value |-> None]

CallConcentrationReport ==
    /\ result.op = "pending"
    /\ LET in == result.arg[1]
       IN  result' = Returned("concentration_report", result.arg,
                              Ok(ConcentrationReport(in[1], in[2], in[3])))
    /\ UNCHANGED <<holdings, portfolio_data, quotes, infos, session>>

NextScore == CallConcentrationReport

SpecScore == InitScore /\ [][NextScore]_vars

-----------------------------------------------------------------------------
(* The risk calculator on its own: one price path, one method *)

\* price paths have up to MaxPathLen observations
MaxPathLen == 4

PathPrices == {50, 100, 200}

RECURSIVE PathsOfLen(_)
PathsOfLen(n) ==
    IF n = 0 THEN {<<>>}
    ELSE {Append(p, x) : p \in PathsOfLen(n - 1), x \in PathPrices}

PricePaths == UNION {PathsOfLen(n) : n \in 0..MaxPathLen}

InitRisk ==
    /\ holdings = EmptyDict
    /\ data_loaded = FALSE
    /\ loaded_for = {}
    /\ first_report = None
    /\ portfolio_data = EmptyDict
    /\ quotes = [t \in Tickers |-> <<>>]
    /\ infos = [t \in Tickers |-> InfoError]
    /\ \E prices \in PricePaths :
            result = [op |-> "pending", arg |-> Some(prices), status |-> "ok",
                      value |-> None]

\* calc.calculate_returns(prices)
CallCalculateReturns ==
    /\ result.op = "pending"
    /\ result' = Returned("calculate_returns", result.arg,
                          Ok(CalculateReturns(Close(result.arg[1]))))
    /\ UNCHANGED <<holdings, portfolio_data, quotes, infos, session>>

\* calc.calculate_volatility(calc.calculate_returns(prices))
CallCalculateVolatility ==
    /\ result.op = "pending"
    /\ result' = Returned("calculate_volatility", result.arg,
            Ok(CalculateVolatility(CalculateReturns(Close(result.arg[1])))))
    /\ UNCHANGED <<holdings, portfolio_data, quotes, infos, session>>

\* calc.calculate_sharpe_ratio(calc.calculate_returns(prices))
CallCalculateSharpeRatio ==
    /\ result.op = "pending"
    /\ result' = Returned("calculate_sharpe_ratio", result.arg,
            Ok(CalculateSharpeRatio(CalculateReturns(Close(result.arg[1])))))
    /\ UNCHANGED <<holdings, portfolio_data, quotes, infos, session>>

\* calc.calculate_max_drawdown(prices)
CallCalculateMaxDrawdown ==
    /\ result.op = "pending"
    /\ result' = Returned("calculate_max_drawdown", result.arg,
                          Ok(CalculateMaxDrawdown(Close(result.arg[1]))))
    /\ UNCHANGED <<holdings, portfolio_data, quotes, infos, session>>

NextRisk ==
    \/ CallCalculateReturns
    \/ CallCalculateVolatility
    \/ CallCalculateSharpeRatio
    \/ CallCalculateMaxDrawdown

SpecRisk == InitRisk /\ [][NextRisk]_vars

-----------------------------------------------------------------------------
(* calculate_portfolio_metrics on its own: histories on differing dates *)

\* trading days are numbered 1..MaxDate
MaxDate == 4

MetricTickers == {"AAPL", "MSFT"}

\* the close of a ticker on a day
DayClose(t, d) ==
    IF t = "AAPL" THEN (IF d % 2 = 1 THEN 100 ELSE 200)
    ELSE IF d % 3 = 0 THEN 200 ELSE IF d % 3 = 1 THEN 50 ELSE 100

\* the histories the provider may give for a ticker: its closes on some days
\* (a history without rows is never stored, data_fetcher.py:31-33)
HistoriesOn(t) ==
    {[d \in D |-> DayClose(t, d)] : D \in (SUBSET (1..MaxDate)) \ {{}}}

PortfolioDatas ==
    UNION {{f \in [S -> UNION {HistoriesOn(t) : t \in S}] :
                \A t \in S : f[t] \in HistoriesOn(t)} :
           S \in (SUBSET MetricTickers) \ {{}}}

WeightChoices ==
    {None, Some([t \in MetricTickers |-> IF t = "AAPL" THEN <<1, 4>> ELSE <<3, 4>>])}

InitMetrics ==
    /\ holdings = EmptyDict
    /\ data_loaded = FALSE
    /\ loaded_for = {}
    /\ first_report = None
    /\ portfolio_data = EmptyDict
    /\ quotes = [t \in Tickers |-> <<>>]
    /\ infos = [t \in Tickers |-> InfoError]
    /\ \E in \in PortfolioDatas \X WeightChoices :
            result = [op |-> "pending", arg |-> Some(in), status |-> "ok",
                      value |-> None]

\* calculator.calculate_portfolio_metrics(portfolio_data, weights)
CallCalculatePortfolioMetrics ==
    /\ result.op = "pending"
    /\ LET in == result.arg[1]
       IN  result' = Returned("calculate_portfolio_metrics", result.arg,
                              CalculatePortfolioMetrics(in[1], in[2]))
    /\ UNCHANGED <<holdings, portfolio_data, quotes, infos, session>>

NextMetrics == CallCalculatePortfolioMetrics

SpecMetrics == InitMetrics /\ [][NextMetrics]_vars

-----------------------------------------------------------------------------
(* The analyzer with the first generated report remembered *)

\* a provider that answers every lookup
ProviderUp ==
    /\ quotes = [t \in SampleTickers |-> <<160>>]
    /\ infos = [t \in SampleTickers |->
                    IF t \in {"AAPL", "MSFT"} THEN "Technology"
                    ELSE "Communication Services"]

ReportOrders == {o \in Orders : o[1] \in {"AAPL", "MSFT"} /\ o[3] # None}

InitReports ==
    /\ holdings = EmptyDict
    /\ portfolio_data = EmptyDict
    /\ ProviderUp
    /\ result = NoCall
    /\ data_loaded = FALSE
    /\ loaded_for = {}
    /\ first_report = None

\* what a report was generated from, and the report
ReportRecord(r, again) ==
    [holdings |-> holdings, portfolio_data |-> portfolio_data,
     quotes |-> quotes, infos |-> infos,
     status |-> r.status, value |-> r.value, again |-> again]

\* generate_portfolio_report(); the first report is remembered, and so is
\* whether another one was generated after it
RecordGeneratePortfolioReport ==
    LET r == GeneratePortfolioReport(holdings, portfolio_data, quotes, infos)
    IN  /\ result' = Returned("generate_portfolio_report", None, r)
        /\ first_report' =
                IF first_report = None THEN Some(ReportRecord(r, FALSE))
                ELSE Some([first_report[1] EXCEPT !.again = TRUE])
        /\ UNCHANGED <<holdings, portfolio_data, quotes, infos,
                       data_loaded, loaded_for>>

NextReports ==
    \/ \E o \in ReportOrders : AddHolding(o[1], o[2], o[3])
    \/ \E fetched \in [DOMAIN holdings -> {None} \cup {Some(x) : x \in Histories}] :
            LoadPortfolioData(fetched)
    \/ CallCalculatePortfolioValue
    \/ CallAnalyzeDiversification
    \/ CallCalculateRiskMetrics
    \/ \E tw \in TargetChoices : CallGetRebalancingRecommendations(tw)
    \/ RecordGeneratePortfolioReport

SpecReports == InitReports /\ [][NextReports]_vars

-----------------------------------------------------------------------------
(* The dashboard: one script run per user action *)

\* what the user may submit in the "Add Holdings" form: <<ticker, shares,
\* purchase_price>>; the ticker may be left empty and the shares at 0
FormInputs ==
    {<<"MSFT", 15, Some(300)>>, <<"AAPL", 20, Some(0)>>, <<"", 10, Some(0)>>,
     <<"AAPL", 0, Some(150)>>}

\* the add_holding calls of "Load Sample Portfolio" (lines 64-68)
SamplePortfolio ==
    <<<<"AAPL", 10, Some(150)>>, <<"MSFT", 15, Some(300)>>,
      <<"GOOGL", 5, Some(120)>>, <<"AMZN", 8, Some(130)>>,
      <<"TSLA", 12, Some(200)>>>>

\* holdings after the add_holding calls of a sequence of orders
RECURSIVE AddAll(_, _)
AddAll(h, orders) ==
    IF orders = <<>> THEN h
    ELSE AddAll(DictPut(h, Head(orders)[1],
                        [shares |-> Head(orders)[2],
                         purchase_price |-> Head(orders)[3]]),
                Tail(orders))

\* the main area of a script run (lines 102-104): the report when data_loaded,
\* else the welcome page; message is what the sidebar said
Render(message, h, pd, loaded) ==
    IF loaded
    THEN Returned("dashboard", Some(message),
                  GeneratePortfolioReport(h, pd, quotes, infos))
    ELSE Returned("dashboard", Some(message), Ok(None))

InitDashboard ==
    /\ holdings = EmptyDict
    /\ portfolio_data = EmptyDict
    /\ ProviderUp
    /\ result = NoCall
    /\ data_loaded = FALSE
    /\ loaded_for = {}
    /\ first_report = None

\* "Add to Portfolio" (lines 49-58)
SubmitHolding(ticker, shares, purchase_price) ==
    LET valid == ticker # "" /\ shares > 0
        h == IF valid THEN AddAll(holdings, <<<<ticker, shares, purchase_price>>>>)
             ELSE holdings
    IN  /\ holdings' = h
        /\ result' = Render(IF valid THEN "added" ELSE "", h, portfolio_data,
                            data_loaded)
        /\ UNCHANGED <<portfolio_data, quotes, infos, data_loaded, loaded_for,
                       first_report>>

\* "Load Sample Portfolio" (lines 61-69): a new analyzer with the sample
LoadSamplePortfolio ==
    LET h == AddAll(EmptyDict, SamplePortfolio)
    IN  /\ holdings' = h
        /\ portfolio_data' = EmptyDict
        /\ result' = Render("sample", h, EmptyDict, data_loaded)
        /\ UNCHANGED <<quotes, infos, data_loaded, loaded_for, first_report>>

\* "Clear Portfolio" (lines 72-80), shown when there are holdings
ClearPortfolio ==
    /\ DOMAIN holdings # {}
    /\ holdings' = EmptyDict
    /\ portfolio_data' = EmptyDict
    /\ data_loaded' = FALSE
    /\ result' = Render("cleared", EmptyDict, EmptyDict, FALSE)
    /\ UNCHANGED <<quotes, infos, loaded_for, first_report>>

\* "Analyze Portfolio" (lines 90-99); fetched is the provider's history per
\* ticker
AnalyzePortfolio(fetched) ==
    IF DOMAIN holdings = {}
    THEN /\ result' = Render("no holdings", holdings, portfolio_data, data_loaded)
         /\ UNCHANGED <<holdings, portfolio_data, quotes, infos, session>>
    ELSE LET data == FetchPortfolioData(DOMAIN holdings, fetched)
             loaded == DOMAIN data # {}
         IN  /\ portfolio_data' = data
             /\ data_loaded' = (loaded \/ data_loaded)
             /\ loaded_for' = IF loaded THEN DOMAIN holdings ELSE loaded_for
             /\ result' = Render(IF loaded THEN "complete" ELSE "failed",
                                 holdings, data, loaded \/ data_loaded)
             /\ UNCHANGED <<holdings, quotes, infos, first_report>>

NextDashboard ==
    \/ \E in \in FormInputs : SubmitHolding(in[1], in[2], in[3])
    \/ LoadSamplePortfolio
    \/ ClearPortfolio
    \/ \E fetched \in [DOMAIN holdings -> {None} \cup {Some(x) : x \in Histories}] :
            AnalyzePortfolio(fetched)

SpecDashboard == InitDashboard /\ [][NextDashboard]_vars

-----------------------------------------------------------------------------
(* Vocabulary of the properties *)

Held == DOMAIN holdings

\* the provider has a latest close for the ticker
PriceResolved(t) == quotes[t] # <<>>

\* the provider's reference data names a sector for the ticker
SectorResolved(t) == infos[t] \notin {InfoError, InfoNoSector}

ResolvedHeld == {t \in Held : PriceResolved(t)}

\* shares times the latest close, from the holdings and the provider's answer
ExpectedValue(t) == holdings[t].shares * quotes[t][Len(quotes[t])]

RECURSIVE SumExpectedValue(_)
SumExpectedValue(S) ==
    IF S = {} THEN 0
    ELSE LET t == CHOOSE x \in S : TRUE
         IN  ExpectedValue(t) + SumExpectedValue(S \ {t})

EqualValues(S) == \A a, b \in S : ExpectedValue(a) = ExpectedValue(b)

Returns(op) == result.op = op /\ result.status = "ok"

-----------------------------------------------------------------------------
(* Valuation and report: C1 - C4 *)

PartialFailure ==
    /\ \E t \in Held : ~PriceResolved(t)
    /\ \E t \in Held : PriceResolved(t)

\* C1: when the price lookup fails for some but not all holdings,
\* generate_portfolio_report returns a report: the failed tickers have no
\* position, the weights of the others sum to 1 and the total is theirs alone.
C1_PartialFailureStillReports ==
    (result.op = "generate_portfolio_report" /\ PartialFailure)
        => /\ result.status = "ok"
           /\ DOMAIN result.value.valuation.positions = ResolvedHeld
           /\ RatSumSeq(WeightList(result.value.valuation.positions)) = RatInt(1)
           /\ result.value.valuation.total_value = SumExpectedValue(ResolvedHeld)

\* C2: when no holding resolves to a price (or there are no holdings),
\* calculate_portfolio_value and generate_portfolio_report fail with
\* EmptyPortfolio instead of returning.
C2_EmptyPortfolioFails ==
    (/\ result.op \in {"calculate_portfolio_value", "generate_portfolio_report"}
     /\ ResolvedHeld = {})
        => result.status = "EmptyPortfolio"

\* C3: when at least one price resolves, calculate_portfolio_value returns
\* positions for exactly the resolved tickers, each weight is the position's
\* value over the sum of the resolved positions' values, and the weights sum
\* to 1.
C3_WeightsSumToOne ==
    (result.op = "calculate_portfolio_value" /\ ResolvedHeld # {})
        => /\ result.status = "ok"
           /\ DOMAIN result.value.positions = ResolvedHeld
           /\ \A t \in ResolvedHeld :
                 result.value.positions[t].weight =
                    Rat(ExpectedValue(t), SumExpectedValue(ResolvedHeld))
           /\ RatSumSeq(WeightList(result.value.positions)) = RatInt(1)

\* a valuation of two resolved holdings beside an unresolved one
C3_Witness ==
    /\ Returns("calculate_portfolio_value")
    /\ Cardinality(ResolvedHeld) >= 2
    /\ ResolvedHeld # Held

\* the scenario of C4: AAPL 10 @ 150 and MSFT 15 @ 300, quoted at 160 and 290
C4_Scenario ==
    /\ Held = {"AAPL", "MSFT"}
    /\ holdings["AAPL"] = [shares |-> 10, purchase_price |-> Some(150)]
    /\ holdings["MSFT"] = [shares |-> 15, purchase_price |-> Some(300)]
    /\ quotes["AAPL"] = <<160>>
    /\ quotes["MSFT"] = <<290>>

\* C4: for every resolved holding position_value = shares * current_price,
\* total_value is the sum of the position values, and with a purchase price
\* gain_loss = (current_price - purchase_price) * shares; in the scenario the
\* values are 1600 and 4350, total 5950, gains 100 and -150.
C4_PositionValues ==
    result.op = "calculate_portfolio_value"
        => /\ result.status = "ok"
           /\ \A t \in DOMAIN result.value.positions :
                 LET pos == result.value.positions[t]
                     price == quotes[t][Len(quotes[t])]
                 IN  /\ pos.position_value = holdings[t].shares * price
                     /\ holdings[t].purchase_price # None
                            => pos.gain_loss =
                                Some((price - holdings[t].purchase_price[1])
                                        * holdings[t].shares)
           /\ result.value.total_value =
                 SumExpectedValue(DOMAIN result.value.positions)
           /\ C4_Scenario
                 => /\ result.value.positions["AAPL"].position_value = 1600
                    /\ result.value.positions["MSFT"].position_value = 4350
                    /\ result.value.total_value = 5950
                    /\ result.value.positions["AAPL"].gain_loss = Some(100)
                    /\ result.value.positions["MSFT"].gain_loss = Some(-150)

C4_Witness == Returns("calculate_portfolio_value") /\ C4_Scenario

-----------------------------------------------------------------------------
(* Diversification: C5 - C7, C10 *)

\* three holdings of equal value, all priced, in three distinct named sectors
C5_Scenario ==
    /\ Cardinality(Held) = 3
    /\ \A t \in Held : PriceResolved(t) /\ SectorResolved(t)
    /\ Cardinality({infos[t] : t \in Held}) = 3
    /\ EqualValues(Held)

\* C5 as stated: the three-ticker, three-sector, equal-value portfolio scores
\* min(10, 3 * 0.5 + 3 * 1.5) = 6.0.
C5_EqualThreeScoresSix ==
    (result.op = "analyze_diversification" /\ C5_Scenario)
        => /\ result.status = "ok"
           /\ result.value.diversification_score = RatInt(6)

\* C5 amended: that portfolio scores 5.0: its top position weighs 1/3, its
\* top three weigh 1 > 0.70, which costs one point of the base score 6.
C5_EqualThreeScoresFive ==
    (result.op = "analyze_diversification" /\ C5_Scenario)
        => /\ result.status = "ok"
           /\ result.value.num_holdings = 3
           /\ result.value.num_sectors = 3
           /\ result.value.top_position_weight = <<1, 3>>
           /\ result.value.top_3_weight = RatInt(1)
           /\ result.value.diversification_score = RatInt(5)

C5_Witness == Returns("analyze_diversification") /\ C5_Scenario

ScoreReturned ==
    /\ result.op \in {"analyze_diversification", "concentration_report"}
    /\ result.status = "ok"

\* C6: whenever analyze_diversification returns, its diversification_score
\* is at least 0 and at most 10.
C6_ScoreInRange ==
    ScoreReturned
        => /\ RatLeq(RatInt(0), result.value.diversification_score)
           /\ RatLeq(result.value.diversification_score, RatInt(10))

\* a scoring whose uncapped base 0.5 * holdings + 1.5 * sectors exceeds 10
C6_Witness ==
    /\ Returns("concentration_report")
    /\ result.value.num_holdings + 3 * result.value.num_sectors > 20
    /\ result.value.diversification_score = RatInt(10)

Top3Breach(r) == RatLess(<<7, 10>>, r.top_3_weight)

TopBreach(r) == RatLess(<<2, 5>>, r.top_position_weight)

\* the reports of the portfolios with the counts of r, the top-3 condition of
\* r and a top position of at most 0.40
LowTopCounterparts(r) ==
    LET all == {ConcentrationReport(r.num_holdings, r.num_sectors, w) :
                    w \in {x \in Shapes :
                              Realizable(r.num_holdings, r.num_sectors, x)}}
    IN  {c \in all : ~TopBreach(c) /\ (Top3Breach(c) <=> Top3Breach(r))}

\* C7 as stated: with the counts and the top-3 condition fixed, a portfolio
\* whose top position is above 0.40 scores exactly 2 less than one whose top
\* position is at or below 0.40.
C7_ExactlyTwoLower ==
    (Returns("concentration_report") /\ TopBreach(result.value))
        => \A low \in LowTopCounterparts(result.value) :
              result.value.diversification_score =
                 RatSub(low.diversification_score, RatInt(2))

\* C7 amended: it scores max(0, s - 2), where s is the score of the portfolio
\* at or below 0.40: exactly 2 less when s >= 2, and 0 otherwise.
C7_TwoLowerFlooredAtZero ==
    (Returns("concentration_report") /\ TopBreach(result.value))
        => \A low \in LowTopCounterparts(result.value) :
              result.value.diversification_score =
                 RatMax(RatInt(0), RatSub(low.diversification_score, RatInt(2)))

\* a concentrated portfolio with a counterpart that scores 2 more
C7_Witness ==
    /\ Returns("concentration_report")
    /\ TopBreach(result.value)
    /\ \E low \in LowTopCounterparts(result.value) :
          /\ RatLess(RatInt(2), low.diversification_score)
          /\ result.value.diversification_score =
                RatSub(low.diversification_score, RatInt(2))

\* C10: a holding whose sector is not resolved adds no sector: the sectors of
\* sector_allocation are the named sectors of the holdings, num_sectors counts
\* them, and no placeholder name is among them.
C10_UnresolvedSectorSkipped ==
    Returns("analyze_diversification")
        => /\ DOMAIN result.value.sector_allocation =
                 {infos[t] : t \in {x \in Held : SectorResolved(x)}}
           /\ result.value.num_sectors =
                 Cardinality({infos[t] : t \in {x \in Held : SectorResolved(x)}})
           /\ "N/A" \notin DOMAIN result.value.sector_allocation

-----------------------------------------------------------------------------
(* Rebalancing: C8, C9 *)

\* C8: get_rebalancing_recommendations returns, and recommends for exactly
\* the holdings whose price resolved, also when some price did not resolve.
C8_UnresolvedExcluded ==
    (/\ result.op = "get_rebalancing_recommendations"
     /\ \E t \in Held : ~PriceResolved(t))
        => /\ result.status = "ok"
           /\ DOMAIN result.value = ResolvedHeld

\* every price resolves, the positions have equal value, default targets
C9_Scenario ==
    /\ result.op = "get_rebalancing_recommendations"
    /\ result.arg = None
    /\ Held # {}
    /\ ResolvedHeld = Held
    /\ EqualValues(Held)

-----------------------------------------------------------------------------
(* Report without price history: C11 *)

\* no price history is loaded and every held ticker has a latest close
C11_Scenario ==
    /\ result.op = "generate_portfolio_report"
    /\ DOMAIN portfolio_data = {}
    /\ ResolvedHeld = Held

\* C11: with no price history loaded and every price resolved,
\* generate_portfolio_report returns; risk_metrics is None, the valuation
\* has a position for every holding and the diversification analysis counts
\* every holding.
C11_NoHistoryStillReports ==
    C11_Scenario
        => /\ result.status = "ok"
           /\ result.value.risk_metrics = None
           /\ DOMAIN result.value.valuation.positions = Held
           /\ result.value.valuation.total_value = SumExpectedValue(Held)
           /\ result.value.diversification.num_holdings = Cardinality(Held)

C11_Witness ==
    /\ C11_Scenario
    /\ Cardinality(Held) = 2
    /\ result.status = "ok"
    /\ result.value.risk_metrics = None

-----------------------------------------------------------------------------
(* Holdings: C12 *)

\* the holdings after add_holding(ticker, shares, purchase_price) on h when
\* the call overwrites
Overwritten(h, ticker, shares, purchase_price) ==
    [t \in DOMAIN h \cup {ticker} |->
        IF t = ticker
        THEN [shares |-> shares, purchase_price |-> purchase_price]
        ELSE h[t]]

\* C12: every add_holding leaves one entry per ticker added so far: the
\* entry of the added ticker holds exactly the shares and purchase price of
\* this call, whatever was held for it before, and every other entry is as
\* it was.
C12_LastAddWins ==
    [][result'.op = "add_holding"
          => LET a == result'.arg[1]
             IN  holdings' = Overwritten(holdings, a[1], a[2], a[3])]_vars

\* a second add_holding of a ticker, with other shares than the first
C12_Witness ==
    /\ result.op = "add_holding"
    /\ result.arg = Some(<<"MSFT", 10, None>>)
    /\ holdings["MSFT"] = [shares |-> 10, purchase_price |-> None]
    /\ Cardinality(Held) = 3

-----------------------------------------------------------------------------
(* Risk metrics with an unpriced ticker: C18 *)

\* C18: whenever price history is loaded and at least one held ticker has
\* a latest close, calculate_risk_metrics returns a metrics record, also
\* when a ticker with loaded history has no latest close.
C18_UnpricedHistoryExcluded ==
    (/\ result.op = "calculate_risk_metrics"
     /\ DOMAIN portfolio_data # {}
     /\ ResolvedHeld # {})
        => /\ result.status = "ok"
           /\ result.value # None

-----------------------------------------------------------------------------
(* Risk calculator: C13 - C16 *)

\* the price path a method of the risk calculator was called on
Path == result.arg[1]

ConstantPath == \A k \in 1..Len(Path) : Path[k] = Path[1]

NonDecreasingPath == \A k \in 1..(Len(Path) - 1) : Path[k] <= Path[k + 1]

\* C13: calculate_returns on fewer than 2 observations fails with
\* InsufficientData; it does not return an empty series.
C13_ShortSeriesRefused ==
    (result.op = "calculate_returns" /\ Len(Path) < 2)
        => result.status = "InsufficientData"

\* C14: on a constant price path calculate_volatility returns 0, and
\* calculate_sharpe_ratio returns the undefined value (NaN) without raising.
C14_ConstantPathDegenerate ==
    /\ (result.op = "calculate_volatility" /\ Len(Path) >= 2 /\ ConstantPath)
            => (result.status = "ok" /\ result.value = RatInt(0))
    /\ (result.op = "calculate_sharpe_ratio" /\ Len(Path) >= 2 /\ ConstantPath)
            => (result.status = "ok" /\ result.value = NaN)

\* C15: on a path of at least 2 observations calculate_max_drawdown
\* returns a number that is at least 0, and exactly 0 when the path never
\* falls.
C15_DrawdownNonNegative ==
    (result.op = "calculate_max_drawdown" /\ Len(Path) >= 2)
        => /\ result.status = "ok"
           /\ result.value # NaN
           /\ RatLeq(RatInt(0), result.value)
           /\ NonDecreasingPath => result.value = RatInt(0)

\* a rising path with drawdown 0
C15_Witness ==
    /\ result.op = "calculate_max_drawdown"
    /\ Path = <<50, 100, 100, 200>>
    /\ result.value = RatInt(0)

\* the largest decline from an observation to a later one, the first
\* observation included among the peaks
PeakToTrough(path) ==
    RatMaxSeq([k \in 1..(Len(path) * Len(path)) |->
        LET i == ((k - 1) \div Len(path)) + 1
            j == ((k - 1) % Len(path)) + 1
        IN  IF i <= j THEN Rat(path[i] - path[j], path[i]) ELSE RatInt(0)])

\* C16: on a path of at least 2 positive observations
\* calculate_max_drawdown returns the largest peak-to-trough decline of the
\* whole path, the first observation counting as a peak.
C16_LargestPeakToTrough ==
    (result.op = "calculate_max_drawdown" /\ Len(Path) >= 2)
        => /\ result.status = "ok"
           /\ result.value = PeakToTrough(Path)

-----------------------------------------------------------------------------
(* Date alignment: C17 *)

\* the dates on which a history has a return: all but its first
ReturnDates(history) == DOMAIN history \ {MinOf(DOMAIN history)}

\* the dates on which every ticker of pd has a return
CommonDates(pd) ==
    {d \in UNION {ReturnDates(pd[t]) : t \in DOMAIN pd} :
        \A t \in DOMAIN pd : d \in ReturnDates(pd[t])}

\* C17: for histories of at least 2 observations each, the weighted return
\* series of calculate_portfolio_metrics has exactly the dates on which
\* every ticker has a return, with a number on each of them; a date that
\* some ticker lacks has no row, NaN or other.
C17_InnerJoin ==
    (/\ result.op = "calculate_portfolio_metrics"
     /\ result.status = "ok"
     /\ \A t \in DOMAIN result.arg[1][1] :
            Cardinality(DOMAIN result.arg[1][1][t]) >= 2)
        => LET series == result.value.weighted_returns
           IN  /\ DOMAIN series = CommonDates(result.arg[1][1])
               /\ \A d \in DOMAIN series : series[d] # NaN

-----------------------------------------------------------------------------
(* Frame and repeatability: C19 *)

ReadOnlyOps ==
    {"calculate_portfolio_value", "analyze_diversification",
     "calculate_risk_metrics", "get_rebalancing_recommendations",
     "generate_portfolio_report"}

\* a step of one of the five read-only methods leaves holdings and
\* portfolio_data as they were; holdings change in add_holding steps only,
\* portfolio_data in load_portfolio_data steps only
FrameStep ==
    /\ result'.op \in ReadOnlyOps
            => (holdings' = holdings /\ portfolio_data' = portfolio_data)
    /\ holdings' # holdings => result'.op = "add_holding"
    /\ portfolio_data' # portfolio_data => result'.op = "load_portfolio_data"

\* the report just generated and the first one were generated from the
\* same holdings and the same provider answers
SameHoldingsAndAnswers ==
    /\ result.op = "generate_portfolio_report"
    /\ first_report # None
    /\ first_report[1].holdings = holdings
    /\ first_report[1].quotes = quotes
    /\ first_report[1].infos = infos

SameReport ==
    /\ result.status = first_report[1].status
    /\ result.value = first_report[1].value

\* C19 as stated: the five read-only methods leave holdings and
\* portfolio_data unchanged, only add_holding changes holdings, only
\* load_portfolio_data changes portfolio_data, and two reports generated
\* from the same holdings and the same provider answers are equal.
C19_SameHoldingsSameReport ==
    [](SameHoldingsAndAnswers => SameReport) /\ [][FrameStep]_vars

\* C19 amended: ... two reports generated from the same holdings, the same
\* loaded price history and the same provider answers are equal.
C19_SameStateSameReport ==
    []((SameHoldingsAndAnswers
            /\ first_report[1].portfolio_data = portfolio_data) => SameReport)
        /\ [][FrameStep]_vars

\* a second report from the same holdings, history and answers, with risk
\* metrics in it
C19_Witness ==
    /\ SameHoldingsAndAnswers
    /\ first_report[1].again
    /\ first_report[1].portfolio_data = portfolio_data
    /\ Cardinality(DOMAIN portfolio_data) = 2
    /\ result.status = "ok"
    /\ result.value.risk_metrics # None

-----------------------------------------------------------------------------
(* Dashboard: C20 *)

\* C20: whenever data_loaded is true, the tickers held are the tickers that
\* were held when load_portfolio_data last returned True.
C20_LoadedForCurrentHoldings ==
    data_loaded => Held = loaded_for


-----------------------------------------------------------------------------
(* Rebalancing over drawn holdings and quotes: C21 *)

\* a holding has 1..MaxShares shares
MaxShares == 3

\* the latest closes the provider may answer with
RebalancePrices == {160, 290}

\* the holdings add_holding can have built, without purchase prices
HoldingsChoices ==
    UNION {[S -> {[shares |-> n, purchase_price |-> None] : n \in 1..MaxShares}] :
           S \in SUBSET Tickers}

InitRebalance ==
    /\ holdings \in HoldingsChoices
    /\ data_loaded = FALSE
    /\ loaded_for = {}
    /\ first_report = None
    /\ portfolio_data = EmptyDict
    /\ quotes \in [Tickers -> {<<>>} \cup {<<p>> : p \in RebalancePrices}]
    /\ infos = [t \in Tickers |-> InfoError]
    /\ result = NoCall

NextRebalance ==
    \E tw \in TargetChoices : CallGetRebalancingRecommendations(tw)

SpecRebalance == InitRebalance /\ [][NextRebalance]_vars

\* the sum of dollar_difference over the recommendations, in ticker order
DollarDifferences(recommendations) ==
    LET ts == KeysInOrder(recommendations)
    IN  RatSumSeq([k \in 1..Len(ts) |-> recommendations[ts[k]].dollar_difference])

\* every price resolves and the call took the default targets
C21_Scenario ==
    /\ result.op = "get_rebalancing_recommendations"
    /\ result.arg = None
    /\ ResolvedHeld = Held

====
